---- MODULE Spec2Model ----
(***************************************************************************)
(* Model of extract_firmware_complete.py: the FirmwareExtractor pipeline   *)
(* (main, __init__, run and the stage methods), with the external tools    *)
(* (which, binwalk, lz4, unsquashfs) as nondeterministic environment.      *)
(* Text is modelled as sequences of one-character strings so that          *)
(* str.split, str.lower, substring tests, str.isdigit and int() are        *)
(* computed as the code computes them.                                     *)
(***************************************************************************)
EXTENDS Integers, Sequences, FiniteSets, TLC

VARIABLES
    pc,               \* position of the process: the stage about to run, or a terminal position
    argGiven,         \* len(sys.argv) >= 2
    firmwareExists,   \* self.firmware_path.exists() at construction
    srcLen,           \* size in bytes of the firmware file
    workDirExists,    \* self.work_dir.exists()
    log,              \* self.log: sequence of <<level, message>>
    entered,          \* stages entered so far, in order
    outcome,          \* per stage: "none", "ok" or "fail"
    scanRaised,       \* the binwalk -B invocation of find_lz4_offset raised
    scanOutput,       \* result.stdout of binwalk -B (text), while in scope
    lz4Offset,        \* lz4_offset in run
    payloadLen,       \* size of lz4_payload.bin, -1 when not written
    payloadStart,     \* lz4_payload.bin holds the firmware bytes from this position on
    decompressed,     \* firmware_decompressed.bin was written in this run
    extractDirExists, \* _firmware_decompressed.bin.extracted exists
    versionRaised,    \* the unsquashfs -version invocation raised
    versionOutput,    \* result.stdout + result.stderr of unsquashfs -version, while in scope
    version,          \* version in extract_squashfs, <<major, minor>>
    flag,             \* error-tolerance flag put on the unsquashfs command line
    toolExit,         \* exit status of the unsquashfs process itself, -1 when not run
    squashfsDirExists,\* squashfs-extracted exists after the invocation
    reportLog,        \* the log entries this run's generate_report put in the report
    reportWritten,    \* EXTRACTION_REPORT.md was written in this run
    runResult,        \* return value of run: "none", "true", "false" or "raised"
    exitCode,         \* process exit status, -1 while running
    runNo             \* number of the program run on this workspace, from 1

vars == <<pc, argGiven, firmwareExists, srcLen, workDirExists, log, entered,
          outcome, scanRaised, scanOutput, lz4Offset, payloadLen, decompressed,
          extractDirExists, versionRaised, versionOutput, version, flag,
          toolExit, squashfsDirExists, reportLog, reportWritten, runResult,
          exitCode, payloadStart, runNo>>

----------------------------------------------------------------------------
(* Bounds of the model *)

MaxScanLines == 2       \* lines of binwalk output
MaxVersionLines == 2    \* lines of unsquashfs -version output
MaxComponents == 1      \* dji binaries / libraries found by the globs
MaxRuns == 2            \* runs of the program on the same workspace

----------------------------------------------------------------------------
(* Text: characters are one-character strings, text is a sequence of them *)

Digits == {"0", "1", "2", "3", "4", "5", "6", "7", "8", "9"}

UpperChars == <<"A","B","C","D","E","F","G","H","I","J","K","L","M",
                "N","O","P","Q","R","S","T","U","V","W","X","Y","Z">>

LowerChars == <<"a","b","c","d","e","f","g","h","i","j","k","l","m",
                "n","o","p","q","r","s","t","u","v","w","x","y","z">>

\* the lower-case letter of each upper-case letter
LowerOf ==
    [c \in {UpperChars[i] : i \in 1..Len(UpperChars)} |->
        LowerChars[CHOOSE i \in 1..Len(UpperChars) : UpperChars[i] = c]]

\* str.lower() on one character
LowerChar(c) == IF c \in DOMAIN LowerOf THEN LowerOf[c] ELSE c

\* str.lower()
Lower(s) == [i \in 1..Len(s) |-> LowerChar(s[i])]

\* needle in hay
Contains(hay, needle) ==
    \E i \in 0..(Len(hay) - Len(needle)) :
        \A j \in 1..Len(needle) : hay[i + j] = needle[j]

\* str.isdigit()
IsDigit(s) == Len(s) > 0 /\ \A i \in 1..Len(s) : s[i] \in Digits

DigitValue(c) ==
    CASE c = "0" -> 0 [] c = "1" -> 1 [] c = "2" -> 2 [] c = "3" -> 3
      [] c = "4" -> 4 [] c = "5" -> 5 [] c = "6" -> 6 [] c = "7" -> 7
      [] c = "8" -> 8 [] c = "9" -> 9

RECURSIVE IntOf(_)
\* int(s) for a string of decimal digits
IntOf(s) ==
    IF Len(s) = 0 THEN 0
    ELSE 10 * IntOf(SubSeq(s, 1, Len(s) - 1)) + DigitValue(s[Len(s)])

RECURSIVE SplitOn(_, _)
\* s.split(sep) for a one-character separator: empty fields are kept
SplitOn(s, sep) ==
    LET at == {i \in 1..Len(s) : s[i] = sep}
    IN IF at = {} THEN <<s>>
       ELSE LET k == CHOOSE i \in at : \A j \in at : i <= j
            IN <<SubSeq(s, 1, k - 1)>> \o SplitOn(SubSeq(s, k + 1, Len(s)), sep)

RECURSIVE DropEmpty(_)
DropEmpty(ss) ==
    IF Len(ss) = 0 THEN <<>>
    ELSE IF Len(Head(ss)) = 0 THEN DropEmpty(Tail(ss))
    ELSE <<Head(ss)>> \o DropEmpty(Tail(ss))

\* s.split(): split on runs of blanks, no empty fields
Split(s) == DropEmpty(SplitOn(s, " "))

RECURSIVE Remove(_, _)
\* s.replace(c, '')
Remove(s, c) ==
    IF Len(s) = 0 THEN <<>>
    ELSE IF Head(s) = c THEN Remove(Tail(s), c)
    ELSE <<Head(s)>> \o Remove(Tail(s), c)

RECURSIVE TupleGE(_, _)
\* a >= b on Python tuples of integers (lexicographic)
TupleGE(a, b) ==
    IF Len(b) = 0 THEN TRUE
    ELSE IF Len(a) = 0 THEN FALSE
    ELSE IF Head(a) # Head(b) THEN Head(a) > Head(b)
    ELSE TupleGE(Tail(a), Tail(b))

----------------------------------------------------------------------------
(* Environment inputs: the texts the external tools may print *)

NL == "\n"

\* "1024 0x400 LZ4 data" | "52 0x34 lz4 data" | "2048 0x800 Lz4 data" |
\* "0 0x0 gzip data" | "WARNING: LZ4 truncated"
ScanLines ==
    {<<"1","0","2","4"," ","0","x","4","0","0"," ","L","Z","4"," ","d","a","t","a">>,
     <<"5","2"," ","0","x","3","4"," ","l","z","4"," ","d","a","t","a">>,
     <<"2","0","4","8"," ","0","x","8","0","0"," ","L","z","4"," ","d","a","t","a">>,
     <<"0"," ","0","x","0"," ","g","z","i","p"," ","d","a","t","a">>,
     <<"W","A","R","N","I","N","G",":"," ","L","Z","4"," ","t","r","u","n","c","a","t","e","d">>}

\* "unsquashfs version 4.5.1" | "unsquashfs version 4.3" |
\* "Unsquashfs Version 4.10" | "version 3 3.9" | "unsquashfs version" |
\* "copyright 2021 5.0" | "version ... 5.0"
VersionLines ==
    {<<"u","n","s","q","u","a","s","h","f","s"," ","v","e","r","s","i","o","n"," ","4",".","5",".","1">>,
     <<"u","n","s","q","u","a","s","h","f","s"," ","v","e","r","s","i","o","n"," ","4",".","3">>,
     <<"U","n","s","q","u","a","s","h","f","s"," ","V","e","r","s","i","o","n"," ","4",".","1","0">>,
     <<"v","e","r","s","i","o","n"," ","3"," ","3",".","9">>,
     <<"u","n","s","q","u","a","s","h","f","s"," ","v","e","r","s","i","o","n">>,
     <<"c","o","p","y","r","i","g","h","t"," ","2","0","2","1"," ","5",".","0">>,
     <<"v","e","r","s","i","o","n"," ",".",".","."," ","5",".","0">>}

\* what unsquashfs -version may write to stderr: nothing, or "unsquashfs version 4.3"
VersionStderr ==
    {<<>>,
     <<"u","n","s","q","u","a","s","h","f","s"," ","v","e","r","s","i","o","n"," ","4",".","3">>}

\* sizes of the firmware file
SrcLens == {378, 3000}

SeqsUpTo(S, n) == UNION {[1..k -> S] : k \in 0..n}

RECURSIVE Terminated(_)
\* the text made of the given lines, each ended by a newline
Terminated(lines) ==
    IF Len(lines) = 0 THEN <<>>
    ELSE Head(lines) \o <<NL>> \o Terminated(Tail(lines))

ScanTexts == {Terminated(ls) : ls \in SeqsUpTo(ScanLines, MaxScanLines)}

VersionTexts == {Terminated(ls) : ls \in SeqsUpTo(VersionLines, MaxVersionLines)}

----------------------------------------------------------------------------
(* find_lz4_offset *)

DefaultOffset == 378

NoMatch == -1

RECURSIVE FirstLz4Line(_)
\* the loop over result.stdout.split('\n'): offset of the first line that
\* contains 'LZ4' or 'lz4' and starts with a decimal field, NoMatch if none
FirstLz4Line(lines) ==
    IF Len(lines) = 0 THEN NoMatch
    ELSE LET line == Head(lines)
             parts == Split(line)
         IN IF /\ \/ Contains(line, <<"L","Z","4">>)
                   \/ Contains(line, <<"l","z","4">>)
               /\ Len(parts) > 0
               /\ IsDigit(parts[1])
            THEN IntOf(parts[1])
            ELSE FirstLz4Line(Tail(lines))

\* variant of find_lz4_offset: nothing is returned when the scan raises
find_lz4_offset_no_fallback(raised, stdout) ==
    IF raised THEN NoMatch
    ELSE LET m == FirstLz4Line(SplitOn(stdout, NL))
         IN IF m = NoMatch THEN DefaultOffset ELSE m

\* return value of find_lz4_offset
find_lz4_offset(raised, stdout) ==
    IF raised THEN DefaultOffset
    ELSE LET m == FirstLz4Line(SplitOn(stdout, NL))
         IN IF m = NoMatch THEN DefaultOffset ELSE m

\* log entries appended by find_lz4_offset
find_lz4_offset_log(raised, stdout) ==
    <<<<"INFO", "Searching for LZ4 with binwalk...">>>> \o
    (IF raised
       THEN <<<<"ERROR", "Error searching for LZ4">>,
              <<"INFO", "Using default offset: 0x17A (378)">>>>
       ELSE IF FirstLz4Line(SplitOn(stdout, NL)) = NoMatch
       THEN <<<<"INFO", "Using default offset: 0x17A (378)">>>>
       ELSE <<<<"SUCCESS", "LZ4 found">>>>)

----------------------------------------------------------------------------
(* get_unsquashfs_version *)

DefaultVersion == <<4, 4>>

None == <<>>

\* variant of ParseMajorMinor: the last two fields are taken ([-2:])
ParseMajorMinorLastTwo(version_str) ==
    LET fields == SplitOn(version_str, ".")
        lastTwo == SubSeq(fields, IF Len(fields) < 2 THEN 1 ELSE Len(fields) - 1,
                          Len(fields))
    IN IF Len(lastTwo) = 2 /\ IsDigit(lastTwo[1]) /\ IsDigit(lastTwo[2])
       THEN <<IntOf(lastTwo[1]), IntOf(lastTwo[2])>>
       ELSE None

\* major, minor = map(int, version_str.split('.')[:2]); None when it raises
ParseMajorMinor(version_str) ==
    LET fields == SplitOn(version_str, ".")
        firstTwo == SubSeq(fields, 1, IF Len(fields) < 2 THEN Len(fields) ELSE 2)
    IN IF Len(firstTwo) = 2 /\ IsDigit(firstTwo[1]) /\ IsDigit(firstTwo[2])
       THEN <<IntOf(firstTwo[1]), IntOf(firstTwo[2])>>
       ELSE None

RECURSIVE VersionInParts(_)
\* the loop over the parts of one line: a part that raises is passed over
VersionInParts(parts) ==
    IF Len(parts) = 0 THEN None
    ELSE LET v == IF IsDigit(Remove(Head(parts), "."))
                    THEN ParseMajorMinor(Head(parts))
                    ELSE None
         IN IF v # None THEN v ELSE VersionInParts(Tail(parts))

RECURSIVE VersionInLines(_)
\* the loop over output.split('\n')
VersionInLines(lines) ==
    IF Len(lines) = 0 THEN None
    ELSE LET v == IF Contains(Lower(Head(lines)), <<"v","e","r","s","i","o","n">>)
                    THEN VersionInParts(Split(Head(lines)))
                    ELSE None
         IN IF v # None THEN v ELSE VersionInLines(Tail(lines))

\* variant of get_unsquashfs_version: the outer except returns nothing
get_unsquashfs_version_no_default(raised, output) ==
    IF raised THEN None
    ELSE LET v == VersionInLines(SplitOn(output, NL))
         IN IF v = None THEN DefaultVersion ELSE v

\* return value of get_unsquashfs_version; output is result.stdout + result.stderr
get_unsquashfs_version(raised, output) ==
    IF raised THEN DefaultVersion
    ELSE LET v == VersionInLines(SplitOn(output, NL))
         IN IF v = None THEN DefaultVersion ELSE v

\* log entries appended by get_unsquashfs_version
get_unsquashfs_version_log(raised, output) ==
    IF raised THEN <<<<"ERROR", "Error detecting unsquashfs version">>>>
    ELSE IF VersionInLines(SplitOn(output, NL)) = None
    THEN <<<<"INFO", "Could not detect unsquashfs version, using compatible mode">>>>
    ELSE <<>>

----------------------------------------------------------------------------
(* extract_squashfs: choice of the command line *)

\* variant of SelectFlag: the components are compared one by one
SelectFlagComponentwise(v) ==
    IF Len(v) = 2 /\ v[1] >= 4 /\ v[2] >= 5 THEN "-no-exit-code"
    ELSE IF Len(v) = 2 /\ v[1] >= 4 /\ v[2] >= 4 THEN "-ignore-errors"
    ELSE "none"

\* the if / elif / else on version
SelectFlag(v) ==
    IF TupleGE(v, <<4, 5>>) THEN "-no-exit-code"
    ELSE IF TupleGE(v, <<4, 4>>) THEN "-ignore-errors"
    ELSE "none"

\* variant of ShellExit: the flagless line has no "|| true"
ShellExitNoSwallow(f, toolRc) == toolRc

\* exit status of the shell command: "... || true" only on the flagless line
ShellExit(f, toolRc) == IF f = "none" THEN 0 ELSE toolRc

----------------------------------------------------------------------------
(* run_cmd *)

\* what subprocess.run can do: return with an exit status, time out, or raise
\* (out: it printed on stdout; err: it printed on stderr)
CmdResults ==
    [kind : {"exit"}, rc : {0}, out : BOOLEAN, err : {FALSE}]
    \cup [kind : {"exit"}, rc : {1}, out : {FALSE}, err : BOOLEAN]
    \cup [kind : {"timeout", "exception"}, rc : {-1}, out : {FALSE}, err : {FALSE}]

\* return value of run_cmd
run_cmd(res) == res.kind = "exit" /\ res.rc = 0

\* log entries appended by run_cmd (every caller passes a description)
run_cmd_log(res, description) ==
    <<<<"INFO", description>>>> \o
    (CASE res.kind = "timeout" -> <<<<"ERROR", "Timeout executing">>>>
       [] res.kind = "exception" -> <<<<"ERROR", "Exception">>>>
       [] res.kind = "exit" /\ res.rc # 0 ->
            <<<<"ERROR", "Failed to execute">>>> \o
            (IF res.err THEN <<<<"ERROR", "Error: stderr">>>> ELSE <<>>)
       [] res.kind = "exit" /\ res.rc = 0 ->
            (IF res.out THEN <<<<"INFO", "stdout">>>> ELSE <<>>))

----------------------------------------------------------------------------
(* The pipeline *)

\* the states of the orchestrator, in the order run goes through them
StageOrder ==
    <<"DependencyCheck", "Workspace", "LocateOffset", "Slice", "Decompress",
      "ExtractOuter", "ResolveVersion", "ExtractInner", "Classify", "Report",
      "Done">>

\* positions of the process: "FindContainer" is the search for the .squashfs
\* file at the head of extract_squashfs, before the version probe
Positions ==
    {"Main", "Run", "FindContainer", "Finish", "Failed", "Aborted", "Crashed",
     "Usage"}
    \cup {StageOrder[i] : i \in 1..Len(StageOrder)}

Tools == <<"binwalk", "lz4", "unsquashfs">>

\* variant of ExitStatus: the status does not depend on the result
ExitStatusAlwaysZero(success) == 0

\* sys.exit(0 if success else 1)
ExitStatus(success) == IF success THEN 0 ELSE 1

\* variant of NextAfter: a failed filesystem extraction is tried again
NextAfterRetry(ok, next) ==
    IF ok THEN next
    ELSE IF next = "Classify" THEN "ExtractInner" ELSE "Failed"

\* variant of NextAfter: the return value of the stage is not looked at
NextAfterUnchecked(ok, next) == next

\* "if not x: return False" after a stage of run
NextAfter(ok, next) == IF ok THEN next ELSE "Failed"

\* variant of log_msg: the list is rebuilt from the new entries
log_msg_rebuilt(l, entries) == entries

\* log_msg, for the entries one step appends: self.log.append(log_entry)
log_msg(l, entries) == l \o entries

Mark(stage, how) == [outcome EXCEPT ![stage] = how]

Init ==
    /\ pc = "Main"
    /\ argGiven \in BOOLEAN
    /\ firmwareExists \in BOOLEAN
    /\ srcLen \in (IF firmwareExists THEN SrcLens ELSE {0})
    /\ workDirExists \in BOOLEAN
    /\ extractDirExists \in (IF workDirExists THEN BOOLEAN ELSE {FALSE})
    /\ squashfsDirExists \in (IF extractDirExists THEN BOOLEAN ELSE {FALSE})
    /\ log = <<>>
    /\ entered = <<>>
    /\ outcome = [st \in Positions |-> "none"]
    /\ scanRaised = FALSE
    /\ scanOutput = <<>>
    /\ lz4Offset = -1
    /\ payloadLen = -1
    /\ payloadStart = -1
    /\ decompressed = FALSE
    /\ versionRaised = FALSE
    /\ versionOutput = <<>>
    /\ version = None
    /\ flag = "unset"
    /\ toolExit = -1
    /\ reportLog = <<>>
    /\ reportWritten = FALSE
    /\ runResult = "none"
    /\ exitCode = -1
    /\ runNo = 1

\* main, lines 475-479: no argument
MainUsage ==
    /\ pc = "Main"
    /\ ~argGiven
    /\ pc' = "Usage"
    /\ exitCode' = 1
    /\ UNCHANGED <<runNo, payloadStart, argGiven, firmwareExists, srcLen, workDirExists, log, entered,
                   outcome, scanRaised, scanOutput, lz4Offset, payloadLen,
                   decompressed, extractDirExists, versionRaised, versionOutput,
                   version, flag, toolExit, squashfsDirExists, reportLog,
                   reportWritten, runResult>>

\* FirmwareExtractor.__init__, called from main
Construct ==
    /\ pc = "Main"
    /\ argGiven
    /\ IF ~firmwareExists
       THEN /\ log' = <<<<"ERROR", "Firmware no encontrado">>>>
            /\ exitCode' = 1
            /\ pc' = "Aborted"
       ELSE /\ log' = <<>>
            /\ exitCode' = exitCode
            /\ pc' = "Run"
    /\ UNCHANGED <<runNo, payloadStart, argGiven, firmwareExists, srcLen, workDirExists, entered,
                   outcome, scanRaised, scanOutput, lz4Offset, payloadLen,
                   decompressed, extractDirExists, versionRaised, versionOutput,
                   version, flag, toolExit, squashfsDirExists, reportLog,
                   reportWritten, runResult>>

\* run, lines 427-429: the banner
RunBanner ==
    /\ pc = "Run"
    /\ log' = log_msg(log, <<<<"INFO", "====">>, <<"INFO", "DJI FIRMWARE EXTRACTOR">>,
                       <<"INFO", "====">>>>)
    /\ pc' = "DependencyCheck"
    /\ UNCHANGED <<runNo, payloadStart, argGiven, firmwareExists, srcLen, workDirExists, entered,
                   outcome, scanRaised, scanOutput, lz4Offset, payloadLen,
                   decompressed, extractDirExists, versionRaised, versionOutput,
                   version, flag, toolExit, squashfsDirExists, reportLog,
                   reportWritten, runResult, exitCode>>

RECURSIVE FoundLog(_)
\* the "found" entries of the loop over tools
FoundLog(results) ==
    IF Len(results) = 0 THEN <<>>
    ELSE (IF Head(results) = "found" THEN <<<<"INFO", "tool found">>>> ELSE <<>>)
         \o FoundLog(Tail(results))

\* check_dependencies; results[i] is what "which <tool i>" does: the tool is
\* found, is missing, or subprocess.run raises TimeoutExpired (timeout=5),
\* which nothing in check_dependencies, run or main catches
CheckDependencies ==
    /\ pc = "DependencyCheck"
    /\ entered' = Append(entered, "DependencyCheck")
    /\ \E results \in [1..Len(Tools) -> {"found", "missing", "timeout"}] :
         LET raisedAt == {i \in 1..Len(Tools) : results[i] = "timeout"}
             missing == {i \in 1..Len(Tools) : results[i] = "missing"}
             first == CHOOSE i \in raisedAt : \A j \in raisedAt : i <= j
         IN IF raisedAt # {}
            THEN /\ log' = log_msg(log, <<<<"INFO", "Checking dependencies...">>>>
                             \o FoundLog(SubSeq(results, 1, first - 1)))
                 /\ outcome' = Mark("DependencyCheck", "raised")
                 /\ runResult' = "raised"
                 /\ pc' = "Crashed"
            ELSE IF missing # {}
            THEN /\ log' = log_msg(log, <<<<"INFO", "Checking dependencies...">>>>
                             \o FoundLog(results)
                             \o <<<<"ERROR", "Missing tools">>,
                                  <<"ERROR", "On Ubuntu/Debian: sudo apt-get install">>>>)
                 /\ outcome' = Mark("DependencyCheck", "fail")
                 /\ runResult' = "false"
                 /\ pc' = NextAfter(FALSE, "Workspace")
            ELSE /\ log' = log_msg(log, <<<<"INFO", "Checking dependencies...">>>>
                             \o FoundLog(results)
                             \o <<<<"SUCCESS", "All dependencies available">>>>)
                 /\ outcome' = Mark("DependencyCheck", "ok")
                 /\ runResult' = runResult
                 /\ pc' = NextAfter(TRUE, "Workspace")
    /\ UNCHANGED <<runNo, payloadStart, argGiven, firmwareExists, srcLen, workDirExists,
                   scanRaised, scanOutput, lz4Offset, payloadLen,
                   decompressed, extractDirExists, versionRaised, versionOutput,
                   version, flag, toolExit, squashfsDirExists, reportLog,
                   reportWritten, exitCode>>

\* variant of setup_workspace_log: an existing directory is refused
setup_workspace_log_refuses(exists) ==
    <<<<"INFO", "Setting up workspace">>>> \o
    (IF exists
       THEN <<<<"ERROR", "Directory already exists">>>>
       ELSE <<<<"SUCCESS", "Directory created">>>>)

\* the entries setup_workspace logs, by whether the working directory exists
setup_workspace_log(exists) ==
    <<<<"INFO", "Setting up workspace">>>> \o
    (IF exists
       THEN <<<<"INFO", "Directory already exists, using existing">>>>
       ELSE <<<<"SUCCESS", "Directory created">>>>)

\* setup_workspace
SetupWorkspace ==
    /\ pc = "Workspace"
    /\ entered' = Append(entered, "Workspace")
    /\ log' = log_msg(log, setup_workspace_log(workDirExists))
    /\ workDirExists' = TRUE
    /\ outcome' = Mark("Workspace", "ok")
    /\ pc' = "LocateOffset"
    /\ UNCHANGED <<runNo, payloadStart, argGiven, firmwareExists, srcLen,
                   scanRaised, scanOutput, lz4Offset, payloadLen,
                   decompressed, extractDirExists, versionRaised, versionOutput,
                   version, flag, toolExit, squashfsDirExists, reportLog,
                   reportWritten, runResult, exitCode>>

\* find_lz4_offset: binwalk -B raises (timeout or other), or prints some text
FindLz4Offset ==
    /\ pc = "LocateOffset"
    /\ entered' = Append(entered, "LocateOffset")
    /\ \E raised \in BOOLEAN :
         \E stdout \in (IF raised THEN {<<>>} ELSE ScanTexts) :
           /\ scanRaised' = raised
           /\ scanOutput' = stdout
           /\ lz4Offset' = find_lz4_offset(raised, stdout)
           /\ log' = log_msg(log, find_lz4_offset_log(raised, stdout))
    /\ outcome' = Mark("LocateOffset", "ok")
    /\ pc' = "Slice"
    /\ UNCHANGED <<runNo, payloadStart, argGiven, firmwareExists, srcLen, workDirExists, payloadLen,
                   decompressed, extractDirExists, versionRaised, versionOutput,
                   version, flag, toolExit, squashfsDirExists, reportLog,
                   reportWritten, runResult, exitCode>>

\* position of the first byte read by f.seek(offset); f.read() on a file of
\* the given size (the end of the file when the offset is beyond it)
SliceStart(size, offset) == IF offset >= size THEN size ELSE offset

\* variant of SliceLen: the seek is missing, the whole file is read
SliceLenNoSeek(size, offset) == size

\* bytes read by f.seek(offset); f.read() on a file of the given size
SliceLen(size, offset) == IF offset >= size THEN 0 ELSE size - offset

\* extract_lz4_payload: the reads and the write succeed, or one of them raises
ExtractLz4Payload ==
    /\ pc = "Slice"
    /\ entered' = Append(entered, "Slice")
    /\ \E ioOk \in BOOLEAN :
         /\ payloadLen' = IF ioOk THEN SliceLen(srcLen, lz4Offset) ELSE payloadLen
         /\ payloadStart' = IF ioOk THEN SliceStart(srcLen, lz4Offset) ELSE payloadStart
         /\ log' = log_msg(log, <<<<"INFO", "Extracting LZ4 payload">>>> \o
                   (IF ioOk THEN <<<<"SUCCESS", "LZ4 extracted">>>>
                            ELSE <<<<"ERROR", "Error extracting LZ4">>>>))
         /\ outcome' = Mark("Slice", IF ioOk THEN "ok" ELSE "fail")
         /\ runResult' = IF ioOk THEN runResult ELSE "false"
         /\ pc' = NextAfter(ioOk, "Decompress")
    /\ scanRaised' = FALSE
    /\ scanOutput' = <<>>
    /\ UNCHANGED <<runNo, argGiven, firmwareExists, srcLen, workDirExists, lz4Offset,
                   decompressed, extractDirExists, versionRaised, versionOutput,
                   version, flag, toolExit, squashfsDirExists, reportLog,
                   reportWritten, exitCode>>

\* decompress_lz4: run_cmd on "lz4 -d -f", then output_file.stat()
DecompressLz4 ==
    /\ pc = "Decompress"
    /\ entered' = Append(entered, "Decompress")
    /\ \E res \in CmdResults :
         /\ log' = log_msg(log, <<<<"INFO", "Decompressing LZ4...">>>>
                       \o run_cmd_log(res, "Executing: Decompress LZ4")
                       \o (IF run_cmd(res) THEN <<<<"SUCCESS", "LZ4 decompressed">>>>
                                           ELSE <<>>))
         /\ decompressed' = run_cmd(res)
         /\ outcome' = Mark("Decompress", IF run_cmd(res) THEN "ok" ELSE "fail")
         /\ runResult' = IF run_cmd(res) THEN runResult ELSE "false"
         /\ pc' = NextAfter(run_cmd(res), "ExtractOuter")
    /\ UNCHANGED <<runNo, payloadStart, argGiven, firmwareExists, srcLen, workDirExists, scanRaised,
                   scanOutput, lz4Offset, payloadLen, extractDirExists,
                   versionRaised, versionOutput, version, flag, toolExit,
                   squashfsDirExists, reportLog, reportWritten, exitCode>>

\* variant of Extracted: the directory is not looked at
ExtractedUnchecked(cmdOk, dirExists) == cmdOk

\* extract_binwalk and extract_squashfs return the directory when run_cmd
\* returned True and the directory exists
Extracted(cmdOk, dirExists) == cmdOk /\ dirExists

\* extract_binwalk: run_cmd on "binwalk -e", then extract_dir.exists()
ExtractBinwalk ==
    /\ pc = "ExtractOuter"
    /\ entered' = Append(entered, "ExtractOuter")
    /\ \E res \in CmdResults :
         \E dirAfter \in (IF extractDirExists THEN {TRUE} ELSE BOOLEAN) :
           LET ok == Extracted(run_cmd(res), dirAfter)
           IN /\ extractDirExists' = dirAfter
              /\ log' = log_msg(log, <<<<"INFO", "Running binwalk extraction...">>>>
                            \o run_cmd_log(res, "Executing: Binwalk extraction")
                            \o (IF ok THEN <<<<"SUCCESS", "Binwalk extract completed">>>>
                                      ELSE <<>>))
              /\ outcome' = Mark("ExtractOuter", IF ok THEN "ok" ELSE "fail")
              /\ runResult' = IF ok THEN runResult ELSE "false"
              /\ pc' = NextAfter(ok, "FindContainer")
    /\ UNCHANGED <<runNo, payloadStart, argGiven, firmwareExists, srcLen, workDirExists, scanRaised,
                   scanOutput, lz4Offset, payloadLen, decompressed,
                   versionRaised, versionOutput, version, flag, toolExit,
                   squashfsDirExists, reportLog, reportWritten, exitCode>>

\* extract_squashfs, lines 262-274: the glob for *.squashfs
FindContainer ==
    /\ pc = "FindContainer"
    /\ entered' = Append(entered, "FindContainer")
    /\ \E found \in BOOLEAN :
         /\ log' = log_msg(log, <<<<"INFO", "Searching and extracting Squashfs...">>>> \o
                   (IF found THEN <<<<"INFO", "Extracting squashfs file...">>>>
                             ELSE <<<<"ERROR", "No .squashfs file found">>>>))
         /\ outcome' = Mark("FindContainer", IF found THEN "ok" ELSE "fail")
         /\ runResult' = IF found THEN runResult ELSE "false"
         /\ pc' = NextAfter(found, "ResolveVersion")
    /\ UNCHANGED <<runNo, payloadStart, argGiven, firmwareExists, srcLen, workDirExists, scanRaised,
                   scanOutput, lz4Offset, payloadLen, decompressed,
                   extractDirExists, versionRaised, versionOutput, version, flag,
                   toolExit, squashfsDirExists, reportLog, reportWritten,
                   exitCode>>

\* extract_squashfs, lines 277-278: the call of get_unsquashfs_version
ResolveVersion ==
    /\ pc = "ResolveVersion"
    /\ entered' = Append(entered, "ResolveVersion")
    /\ \E raised \in BOOLEAN :
         \E stdout \in (IF raised THEN {<<>>} ELSE VersionTexts) :
           \E stderr \in (IF raised THEN {<<>>} ELSE VersionStderr) :
             /\ versionRaised' = raised
             /\ versionOutput' = stdout \o stderr
             /\ version' = get_unsquashfs_version(raised, stdout \o stderr)
             /\ log' = log_msg(log, get_unsquashfs_version_log(raised, stdout \o stderr)
                           \o <<<<"INFO", "Detected unsquashfs version">>>>)
    /\ outcome' = Mark("ResolveVersion", "ok")
    /\ pc' = "ExtractInner"
    /\ UNCHANGED <<runNo, payloadStart, argGiven, firmwareExists, srcLen, workDirExists, scanRaised,
                   scanOutput, lz4Offset, payloadLen, decompressed,
                   extractDirExists, flag, toolExit, squashfsDirExists,
                   reportLog, reportWritten, runResult, exitCode>>

\* log entry of the branch taken on version
FlagLog(f) ==
    CASE f = "-no-exit-code" -> <<"INFO", "Using -no-exit-code option (modern version)">>
      [] f = "-ignore-errors" -> <<"INFO", "Using -ignore-errors option (version 4.4)">>
      [] OTHER -> <<"INFO", "Old unsquashfs version, no error options available">>

\* extract_squashfs, lines 285-301: the command is chosen and run.  res is
\* what the unsquashfs process does; the shell command exits with
\* ShellExit(flag, res.rc)
ExtractSquashfs ==
    /\ pc = "ExtractInner"
    /\ entered' = Append(entered, "ExtractInner")
    /\ flag' = SelectFlag(version)
    /\ \E res \in CmdResults :
         \E dirAfter \in (IF squashfsDirExists THEN {TRUE} ELSE BOOLEAN) :
           LET shell == IF res.kind = "exit"
                          THEN [res EXCEPT !.rc = ShellExit(SelectFlag(version), res.rc)]
                          ELSE res
               ok == Extracted(run_cmd(shell), dirAfter)
           IN /\ toolExit' = res.rc
              /\ squashfsDirExists' = dirAfter
              /\ log' = log_msg(log, <<FlagLog(SelectFlag(version))>>
                            \o run_cmd_log(shell, "Executing: Squashfs extraction")
                            \o (IF ok THEN <<<<"SUCCESS", "Squashfs extracted">>>>
                                      ELSE <<>>))
              /\ outcome' = Mark("ExtractInner", IF ok THEN "ok" ELSE "fail")
              /\ runResult' = IF ok THEN runResult ELSE "false"
              /\ pc' = NextAfter(ok, "Classify")
    /\ versionRaised' = FALSE
    /\ versionOutput' = <<>>
    /\ UNCHANGED <<runNo, payloadStart, argGiven, firmwareExists, srcLen, workDirExists, scanRaised,
                   scanOutput, lz4Offset, payloadLen, decompressed,
                   extractDirExists, version, reportLog, reportWritten,
                   exitCode>>

\* log entries of one category of list_dji_components
ComponentLog(n, what) ==
    IF n = 0 THEN <<>>
    ELSE <<<<"SUCCESS", what>>>> \o [i \in 1..n |-> <<"INFO", "  - name">>]

\* list_dji_components
ListDjiComponents ==
    /\ pc = "Classify"
    /\ entered' = Append(entered, "Classify")
    /\ \E nbin \in 0..MaxComponents :
         \E nlib \in 0..MaxComponents :
           log' = log_msg(log, <<<<"INFO", "Searching for DJI components...">>>>
                      \o ComponentLog(nbin, "Found DJI binaries")
                      \o ComponentLog(nlib, "Found DJI libraries"))
    /\ outcome' = Mark("Classify", "ok")
    /\ pc' = "Report"
    /\ UNCHANGED <<runNo, payloadStart, argGiven, firmwareExists, srcLen, workDirExists, scanRaised,
                   scanOutput, lz4Offset, payloadLen, decompressed,
                   extractDirExists, versionRaised, versionOutput, version, flag,
                   toolExit, squashfsDirExists, reportLog, reportWritten,
                   runResult, exitCode>>

\* variant of report_log: only the ERROR entries are put in the report
report_log_errors_only(l) ==
    SelectSeq(log_msg(l, <<<<"INFO", "Generating report...">>>>),
              LAMBDA e : e[1] = "ERROR")

\* generate_report, line 396: the report holds self.log as it is when the
\* text is built, the entry of line 335 being its last
report_log(l) == log_msg(l, <<<<"INFO", "Generating report...">>>>)

\* generate_report: the report embeds self.log as it is at line 396
GenerateReport ==
    /\ pc = "Report"
    /\ entered' = Append(entered, "Report")
    /\ reportLog' = report_log(log)
    /\ reportWritten' = TRUE
    /\ log' = log_msg(log, <<<<"INFO", "Generating report...">>,
                       <<"SUCCESS", "Report generated">>>>)
    /\ outcome' = Mark("Report", "ok")
    /\ pc' = "Finish"
    /\ UNCHANGED <<runNo, payloadStart, argGiven, firmwareExists, srcLen, workDirExists, scanRaised,
                   scanOutput, lz4Offset, payloadLen, decompressed,
                   extractDirExists, versionRaised, versionOutput, version, flag,
                   toolExit, squashfsDirExists, runResult, exitCode>>

\* run, lines 467-471: the closing banner and return True
RunFinish ==
    /\ pc = "Finish"
    /\ entered' = Append(entered, "Done")
    /\ log' = log_msg(log, <<<<"INFO", "====">>,
                       <<"SUCCESS", "EXTRACTION COMPLETED SUCCESSFULLY">>,
                       <<"INFO", "====">>>>)
    /\ outcome' = Mark("Done", "ok")
    /\ runResult' = "true"
    /\ pc' = "Done"
    /\ UNCHANGED <<runNo, payloadStart, argGiven, firmwareExists, srcLen, workDirExists, scanRaised,
                   scanOutput, lz4Offset, payloadLen, decompressed,
                   extractDirExists, versionRaised, versionOutput, version, flag,
                   toolExit, squashfsDirExists, reportLog, reportWritten,
                   exitCode>>

\* main, lines 484-486: sys.exit on the value run returned; an exception that
\* left run ends the interpreter with status 1
MainExit ==
    /\ pc \in {"Done", "Failed", "Crashed"}
    /\ exitCode = -1
    /\ exitCode' = IF runResult = "raised" THEN 1
                   ELSE ExitStatus(runResult = "true")
    /\ UNCHANGED <<runNo, payloadStart, pc, argGiven, firmwareExists, srcLen, workDirExists, log,
                   entered, outcome, scanRaised, scanOutput, lz4Offset,
                   payloadLen, decompressed, extractDirExists, versionRaised,
                   versionOutput, version, flag, toolExit, squashfsDirExists,
                   reportLog, reportWritten, runResult>>

\* the program is started again with the same arguments after a run that
\* exited with status 0: a new process (empty log, nothing entered) on the
\* files and directories the earlier run left
Rerun ==
    /\ pc = "Done"
    /\ exitCode = 0
    /\ runNo < MaxRuns
    /\ runNo' = runNo + 1
    /\ pc' = "Main"
    /\ log' = <<>>
    /\ entered' = <<>>
    /\ outcome' = [st \in Positions |-> "none"]
    /\ scanRaised' = FALSE
    /\ scanOutput' = <<>>
    /\ lz4Offset' = -1
    /\ versionRaised' = FALSE
    /\ versionOutput' = <<>>
    /\ version' = None
    /\ flag' = "unset"
    /\ toolExit' = -1
    /\ runResult' = "none"
    /\ exitCode' = -1
    /\ reportLog' = <<>>
    /\ UNCHANGED <<argGiven, firmwareExists, srcLen, workDirExists, payloadLen,
                   payloadStart, decompressed, extractDirExists,
                   squashfsDirExists, reportWritten>>

Next ==
    \/ MainUsage
    \/ Construct
    \/ RunBanner
    \/ CheckDependencies
    \/ SetupWorkspace
    \/ FindLz4Offset
    \/ ExtractLz4Payload
    \/ DecompressLz4
    \/ ExtractBinwalk
    \/ FindContainer
    \/ ResolveVersion
    \/ ExtractSquashfs
    \/ ListDjiComponents
    \/ GenerateReport
    \/ RunFinish
    \/ MainExit
    \/ Rerun

Spec == Init /\ [][Next]_vars

TypeOK ==
    /\ pc \in Positions
    /\ exitCode \in {-1, 0, 1}
    /\ runResult \in {"none", "true", "false", "raised"}
    /\ flag \in {"unset", "none", "-ignore-errors", "-no-exit-code"}
    /\ runNo \in 1..MaxRuns

----------------------------------------------------------------------------
(* Properties *)

IsStage(p) == \E i \in 1..Len(StageOrder) : StageOrder[i] = p

\* the orchestrator states entered so far (without the container search)
StagesEntered == SelectSeq(entered, IsStage)

\* C1: the stages are entered in the fixed order of StageOrder, a stage is
\* entered only when everything entered before it succeeded, a failure takes
\* the run to Failed with run returning False, nothing is entered after a
\* failure, and Failed is never left.
C1_StagesInOrder ==
    /\ [](/\ \A i \in 1..Len(StagesEntered) : StagesEntered[i] = StageOrder[i]
          /\ \A i \in 1..Len(entered) :
               \A j \in 1..(i - 1) : outcome[entered[j]] = "ok"
          /\ (\E p \in Positions : outcome[p] = "fail")
               => (pc = "Failed" /\ runResult = "false"))
    /\ [][/\ (pc = "Failed" => pc' = "Failed")
          /\ ((\E p \in Positions : outcome[p] = "fail") => entered' = entered)]_vars

C1_Witness ==
    /\ pc = "Failed"
    /\ outcome["Decompress"] = "fail"
    /\ entered = SubSeq(StageOrder, 1, 5)
    /\ exitCode = 1

\* C2: with an error-tolerant flag (-ignore-errors or -no-exit-code) the
\* filesystem extraction succeeds exactly when squashfs-extracted exists after
\* the invocation, whatever the exit status of unsquashfs.
C2_SuccessIffDirectory ==
    (outcome["ExtractInner"] # "none" /\ flag \in {"-ignore-errors", "-no-exit-code"})
        => (outcome["ExtractInner"] = "ok" <=> squashfsDirExists)

\* C3: -no-exit-code is chosen exactly for versions >= 4.5, -ignore-errors
\* exactly for 4.4 <= version < 4.5, and no flag exactly below 4.4, in the
\* lexicographic order of (major, minor).
C3_FlagByFloor ==
    flag # "unset" =>
        LET major == version[1]
            minor == version[2]
        IN /\ flag = "-no-exit-code" <=> (major > 4 \/ (major = 4 /\ minor >= 5))
           /\ flag = "-ignore-errors" <=> (major = 4 /\ minor = 4)
           /\ flag = "none" <=> (major < 4 \/ (major = 4 /\ minor < 4))

C3_Witness == flag = "-no-exit-code" /\ version = <<5, 0>>

\* the lines of a text that contain "version", in any casing
LinesWithVersion(output) ==
    SelectSeq(SplitOn(output, NL),
              LAMBDA l : Contains(Lower(l), <<"v","e","r","s","i","o","n">>))

\* a token made of digits and dots, with at least one digit
IsNumberToken(tok) ==
    /\ \A i \in 1..Len(tok) : tok[i] \in Digits \cup {"."}
    /\ \E i \in 1..Len(tok) : tok[i] \in Digits

\* the first two dot-separated fields of the token are both numbers
HasMajorMinor(tok) ==
    LET fields == SplitOn(tok, ".")
    IN Len(fields) >= 2 /\ IsDigit(fields[1]) /\ IsDigit(fields[2])

MajorMinorOf(tok) ==
    LET fields == SplitOn(tok, ".")
    IN <<IntOf(fields[1]), IntOf(fields[2])>>

NumberTokens(line) == SelectSeq(Split(line), IsNumberToken)

\* the state right after get_unsquashfs_version returned
VersionResolved == pc = "ExtractInner"

\* C4 as stated: the default (4,4) is returned whenever the invocation raises,
\* no line with "version" has a digits-and-dots token, or the first such
\* token of the first such line cannot be parsed; the stage never fails.
C4_DefaultWhenFirstTokenFails ==
    /\ outcome["ResolveVersion"] \in {"none", "ok"}
    /\ VersionResolved =>
         LET withToken == SelectSeq(LinesWithVersion(versionOutput),
                                    LAMBDA l : Len(NumberTokens(l)) > 0)
         IN (\/ versionRaised
             \/ Len(withToken) = 0
             \/ ~HasMajorMinor(NumberTokens(withToken[1])[1]))
            => version = <<4, 4>>

\* C4 as amended: the default (4,4) is returned whenever the invocation
\* raises or no digits-and-dots token on any line with "version" can be
\* parsed; the stage never fails and the extraction is entered next.
C4_DefaultWhenNoTokenParses ==
    /\ outcome["ResolveVersion"] \in {"none", "ok"}
    /\ (outcome["ResolveVersion"] = "ok" /\ pc = "Failed")
         => outcome["ExtractInner"] = "fail"
    /\ VersionResolved =>
         LET lines == LinesWithVersion(versionOutput)
         IN (\/ versionRaised
             \/ \A i \in 1..Len(lines) :
                  LET toks == NumberTokens(lines[i])
                  IN \A j \in 1..Len(toks) : ~HasMajorMinor(toks[j]))
            => version = <<4, 4>>

C4_Witness ==
    /\ VersionResolved
    /\ versionRaised
    /\ version = <<4, 4>>

\* C5: whatever the scanner does (no LZ4 line, error, timeout) the offset is
\* the default 378, the stage does not fail and Slice is entered next.
C5_ScanNeverAborts ==
    /\ outcome["LocateOffset"] \in {"none", "ok"}
    /\ (Len(entered) >= 3 /\ entered[3] = "LocateOffset")
         => (pc = "Slice" \/ (Len(entered) >= 4 /\ entered[4] = "Slice"))
    /\ pc = "Slice" =>
         LET lines == SplitOn(scanOutput, NL)
         IN (\/ scanRaised
             \/ \A i \in 1..Len(lines) :
                  ~Contains(Lower(lines[i]), <<"l","z","4">>))
            => lz4Offset = 378

C5_Witness ==
    /\ pc = "Slice"
    /\ scanRaised
    /\ lz4Offset = 378

\* C6: a missing input file ends the process with status 1 in Init, before
\* the workspace or any stage is touched, and Init is the only state whose
\* failure ends the process instead of being returned by run.
C6_OnlyInitAborts ==
    /\ (~firmwareExists /\ pc \notin {"Main", "Usage"})
         => (pc = "Aborted" /\ exitCode = 1 /\ entered = <<>> /\ runResult = "none")
    /\ pc = "Aborted" => ~firmwareExists
    /\ runResult # "raised"

\* C7: the exit status is 0 exactly when run reached Done with every stage
\* successful and the report written, and 1 otherwise.
C7_ExitStatus ==
    exitCode # -1 =>
        /\ exitCode \in {0, 1}
        /\ exitCode = 0 <=>
             /\ pc = "Done"
             /\ \A i \in 1..Len(StageOrder) : outcome[StageOrder[i]] = "ok"
             /\ reportWritten

C7_Witness ==
    /\ exitCode = 0
    /\ pc = "Done"

\* the version C8 describes: on the first line with "version", the first
\* token made only of digits and dots, its first two fields; (4,4) otherwise
VersionAsStated(output) ==
    LET lines == LinesWithVersion(output)
        toks == IF Len(lines) = 0 THEN <<>>
                ELSE SelectSeq(Split(lines[1]),
                               LAMBDA t : Len(t) > 0 /\ \A i \in 1..Len(t) :
                                              t[i] \in Digits \cup {"."})
    IN IF Len(toks) > 0 /\ HasMajorMinor(toks[1]) THEN MajorMinorOf(toks[1])
       ELSE <<4, 4>>

\* C8 as stated: the version comes from the first line with "version" and the
\* first digits-and-dots token on it, (4,4) when that gives no version.
C8_FirstLineFirstToken ==
    (VersionResolved /\ ~versionRaised) => version = VersionAsStated(versionOutput)

\* the tokens of the lines with "version" that have a numeric major and minor,
\* as <<line, token>> positions
ParsablePositions(output) ==
    LET lines == LinesWithVersion(output)
    IN UNION {LET toks == NumberTokens(lines[i])
              IN {<<i, j>> : j \in {k \in 1..Len(toks) : HasMajorMinor(toks[k])}} :
              i \in 1..Len(lines)}

\* "unsquashfs version 4.5.1", "unsquashfs version 4.3", "unsquashfs version"
Example451 ==
    <<"u","n","s","q","u","a","s","h","f","s"," ","v","e","r","s","i","o","n"," ","4",".","5",".","1">>

Example43 ==
    <<"u","n","s","q","u","a","s","h","f","s"," ","v","e","r","s","i","o","n"," ","4",".","3">>

ExampleNoNumber ==
    <<"u","n","s","q","u","a","s","h","f","s"," ","v","e","r","s","i","o","n">>

\* C8 as amended: the version is (major, minor) of the first token, in line
\* order then token order over all lines of stdout+stderr containing
\* "version" in any casing, that is made of digits and dots and whose first
\* two dot-separated fields are numbers; (4,4) when there is no such token.
\* "unsquashfs version 4.5.1" gives (4,5), "unsquashfs version 4.3" gives
\* (4,3), no numeric token gives (4,4).
C8_FirstParsableToken ==
    (VersionResolved /\ ~versionRaised) =>
        LET lines == LinesWithVersion(versionOutput)
            pos == ParsablePositions(versionOutput)
            first == CHOOSE p \in pos :
                        \A q \in pos : p[1] < q[1] \/ (p[1] = q[1] /\ p[2] <= q[2])
        IN /\ pos = {} => version = <<4, 4>>
           /\ pos # {} => version = MajorMinorOf(NumberTokens(lines[first[1]])[first[2]])
           /\ versionOutput = Example451 \o <<NL>> => version = <<4, 5>>
           /\ versionOutput = Example43 \o <<NL>> => version = <<4, 3>>
           /\ versionOutput = ExampleNoNumber \o <<NL>> => version = <<4, 4>>

C8_Witness ==
    /\ VersionResolved
    /\ ~versionRaised
    /\ versionOutput = Example451 \o <<NL>>
    /\ version = <<4, 5>>

\* the offset C9 describes: the decimal field of the first line that contains
\* "lz4" in any casing, 378 when no line does
OffsetAsStated(stdout) ==
    LET hits == SelectSeq(SplitOn(stdout, NL),
                          LAMBDA l : /\ Contains(Lower(l), <<"l","z","4">>)
                                     /\ Len(Split(l)) > 0
                                     /\ IsDigit(Split(l)[1]))
    IN IF Len(hits) = 0 THEN 378 ELSE IntOf(Split(hits[1])[1])

\* C9: the offset is that of the first scanner line whose description
\* contains "lz4" in any casing, later lines being ignored, and the default
\* only when no line matches.
C9_FirstMatchAnyCasing ==
    (pc = "Slice" /\ ~scanRaised) => lz4Offset = OffsetAsStated(scanOutput)

\* C10: no exception leaves run, and every failure of a stage has put an
\* ERROR entry in the log before run returns False.
C10_NoExceptionEscapes ==
    /\ runResult # "raised"
    /\ pc # "Crashed"
    /\ pc = "Failed" =>
         (Len(log) > 0 /\ \E i \in 1..Len(log) : log[i][1] = "ERROR")

\* the entries a step added at the end of the log
Added == SubSeq(log', Len(log) + 1, Len(log'))

HasLevel(entries, levels) == \E i \in 1..Len(entries) : entries[i][1] \in levels

\* C11 as stated: at Done the log in the report is the complete log of the run.
C11_ReportIsWholeLog == pc = "Done" => reportLog = log

\* C11: at Done the log in the report is the log of the run up to and
\* including "Generating report...", in order and with none of these entries
\* missing; the four entries appended after the text was built ("Report
\* generated" and the closing banner) are not in it.
C11_ReportIsLogUpToReport ==
    pc = "Done" =>
        /\ Len(log) = Len(reportLog) + 4
        /\ reportLog = SubSeq(log, 1, Len(log) - 4)
        /\ reportLog[Len(reportLog)] = <<"INFO", "Generating report...">>
        /\ log[Len(reportLog) + 1] = <<"SUCCESS", "Report generated">>

C11_Witness ==
    /\ pc = "Done"
    /\ reportWritten
    /\ Len(reportLog) > 4
    /\ log[Len(log) - 1] = <<"SUCCESS", "EXTRACTION COMPLETED SUCCESSFULLY">>

\* C12: every step that enters a stage and returns to run appends at least
\* one entry, among them a SUCCESS or an ERROR entry, before the run moves
\* on, and a step that takes the run to Failed appends an ERROR entry.
C12_StageLogsOutcome ==
    [][(entered' # entered /\ entered' # <<>> /\ pc' # "Crashed") =>
          /\ Len(log') > Len(log)
          /\ HasLevel(Added, {"SUCCESS", "ERROR"})
          /\ (pc' = "Failed" => HasLevel(Added, {"ERROR"}))]_vars

\* C13: whenever lz4_payload.bin was written with length 0 in a run, the run
\* does not reach Done.
C13_EmptyPayloadRejected ==
    (outcome["Slice"] = "ok" /\ payloadLen = 0) => pc # "Done"

\* C14: when the offset o is within the source length L, the payload written
\* by extract_lz4_payload has exactly L - o bytes, which are the bytes of the
\* source from position o on (none when o = L); the stage fails only in the
\* exception branch, never because of the offset or the length.
C14_SliceIsSuffix ==
    /\ (outcome["Slice"] = "ok" /\ 0 <= lz4Offset /\ lz4Offset <= srcLen) =>
          /\ payloadLen = srcLen - lz4Offset
          /\ payloadStart = lz4Offset
          /\ payloadStart + payloadLen = srcLen
          /\ (lz4Offset = srcLen => payloadLen = 0)
    /\ outcome["Slice"] = "fail" =>
          log[Len(log)] = <<"ERROR", "Error extracting LZ4">>

C14_Witness ==
    /\ outcome["Slice"] = "ok"
    /\ pc = "Decompress"
    /\ lz4Offset = srcLen
    /\ payloadLen = 0

\* C15: when no *.squashfs file is found the run logs an ERROR and fails,
\* unsquashfs is invoked neither for its version nor for the extraction, and
\* Classify and Report are not entered.
C15_NoContainerIsTerminal ==
    outcome["FindContainer"] = "fail" =>
        /\ pc = "Failed"
        /\ runResult = "false"
        /\ log[Len(log)] = <<"ERROR", "No .squashfs file found">>
        /\ version = None
        /\ flag = "unset"
        /\ toolExit = -1
        /\ \A i \in 1..Len(entered) :
             entered[i] \notin {"ResolveVersion", "ExtractInner", "Classify",
                                "Report", "Done"}
        /\ \A i \in 1..Len(log) :
             log[i][2] \notin {"Executing: Squashfs extraction",
                               "Squashfs extracted", "Report generated"}

C15_Witness ==
    /\ outcome["FindContainer"] = "fail"
    /\ outcome["ExtractOuter"] = "ok"
    /\ exitCode = 1

\* number of entries of the log with the given text
Occurrences(text) == Cardinality({i \in 1..Len(log) : log[i][2] = text})

C17_AttemptOnce ==
    /\ \A i, j \in 1..Len(entered) : entered[i] = entered[j] => i = j
    /\ \A d \in {"Executing: Decompress LZ4", "Executing: Binwalk extraction",
                  "Executing: Squashfs extraction"} : Occurrences(d) <= 1
    /\ Cardinality({i \in 1..Len(log) :
                      \E f \in {"none", "-ignore-errors", "-no-exit-code"} :
                          log[i] = FlagLog(f)}) <= 1
    /\ flag # "unset" =>
          /\ Occurrences("Executing: Squashfs extraction") = 1
          /\ \E i \in 1..Len(log) :
                /\ log[i] = FlagLog(flag)
                /\ log[i + 1] = <<"INFO", "Executing: Squashfs extraction">>
    /\ outcome["ExtractInner"] = "fail" => pc = "Failed"

C17_Witness ==
    /\ pc = "Failed"
    /\ outcome["ExtractInner"] = "fail"
    /\ flag = "-ignore-errors"
    /\ toolExit = 1

\* C18 as stated: below 4.4 the filesystem extraction succeeds exactly when
\* squashfs-extracted exists afterwards.
C18_OldVersionOnlyDirectory ==
    (flag = "none" /\ outcome["ExtractInner"] # "none") =>
        (outcome["ExtractInner"] = "ok" <=> squashfsDirExists)

\* C18: below 4.4 no flag is used and, when the command returns (no timeout
\* and no exception of subprocess.run), the stage succeeds exactly when
\* squashfs-extracted exists afterwards, whatever the exit status of
\* unsquashfs; on a timeout or an exception the stage fails.
C18_OldVersionSwallowsExit ==
    (flag = "none" /\ outcome["ExtractInner"] # "none") =>
        /\ ~TupleGE(version, <<4, 4>>)
        /\ toolExit \in {0, 1} =>
              (outcome["ExtractInner"] = "ok" <=> squashfsDirExists)
        /\ toolExit = -1 => outcome["ExtractInner"] = "fail"

C18_Witness ==
    /\ flag = "none"
    /\ toolExit = 1
    /\ outcome["ExtractInner"] = "ok"
    /\ squashfsDirExists

\* C19: within a run every step leaves the log as it was or adds entries at
\* its end: the log before the step is a prefix of the log after it.
C19_LogAppendOnly ==
    [][runNo' = runNo =>
          /\ Len(log') >= Len(log)
          /\ SubSeq(log', 1, Len(log)) = log]_vars

C19_Witness ==
    /\ pc = "Failed"
    /\ outcome["Slice"] = "fail"
    /\ Len(log) >= 8
    /\ log[1] = <<"INFO", "====">>

\* C20: at Done every stage has succeeded in this run and its artifact is
\* there: the work directory, lz4_payload.bin, firmware_decompressed.bin,
\* the outer extraction directory, squashfs-extracted and the report.
C20_DoneHasAllArtifacts ==
    pc = "Done" =>
        /\ runResult = "true"
        /\ \A i \in 1..Len(StageOrder) : outcome[StageOrder[i]] = "ok"
        /\ outcome["FindContainer"] = "ok"
        /\ workDirExists
        /\ payloadLen >= 0
        /\ decompressed
        /\ extractDirExists
        /\ squashfsDirExists
        /\ reportWritten
        /\ reportLog # <<>>

C20_Witness ==
    /\ pc = "Done"
    /\ runNo = 1
    /\ payloadLen > 0
    /\ squashfsDirExists
    /\ reportWritten

====
